---- MODULE Spec2Model ----
(***************************************************************************)
(* Model of package table (src/table/table.go): Tables built by Add and    *)
(* AddConst, the constant-column expansion cache of Column, Groupings      *)
(* built by AddTable, and SortBy.                                          *)
(*                                                                         *)
(* Tables and groupedTables are Go pointers: the model keeps a heap of     *)
(* Table objects and a heap of groupedTable objects, and a pointer is an   *)
(* index into its heap (0 is the nil pointer).  Every operation is written *)
(* as a heap transformer that returns the new heap, the returned pointer   *)
(* and whether the call panicked.                                          *)
(***************************************************************************)
EXTENDS Integers, Sequences, FiniteSets, TLC

VARIABLES heap, sheap, diverged, gheap, made, last, sorted

vars == <<heap, sheap, diverged, gheap, made, last, sorted>>

(* ------------------------------ bounds --------------------------------- *)

\* Number of Table objects the heap may hold.
MaxTables == 3
\* Number of groupedTable objects the heap of groupings may hold.
MaxGroupings == 2
\* Longest column handed to Add.
MaxLen == 1
\* Column elements and constant values are drawn from 1..MaxVal.
MaxVal == 2

(* ------------------------------ values --------------------------------- *)

Names == {"a", "b"}

ElemTypes == {"int", "float64"}

Vals == 1..MaxVal

RootGroupID == "root"

GroupIDs == {RootGroupID, "g1", "g2"}

\* The nil pointer.
NilPtr == 0

\* An untyped nil Slice (data == nil).
NilSlice == [ty |-> "nil", elems |-> <<>>]

SeqsUpTo(n) == UNION {[1..k -> Vals] : k \in 0..n}

\* The Go slices the callers hand to Add.
Slices == {[ty |-> ty, elems |-> e] : ty \in ElemTypes, e \in SeqsUpTo(MaxLen)}

\* The values the callers hand to AddConst.
ConstVals == {[ty |-> ty, v |-> v] : ty \in ElemTypes, v \in Vals}

\* The zero value of Table: nil maps, nil colNames, len 0.
ZeroTable == [cols |-> <<>>, consts |-> <<>>, colNames |-> <<>>,
              colNamesNil |-> TRUE, len |-> 0]

\* map[k] = v on a Go map.
MapSet(m, k, v) == [x \in (DOMAIN m) \cup {k} |-> IF x = k THEN v ELSE m[x]]

\* generic.Repeat(cv, n): cv repeated n times, as a slice of cv's type.
Repeat(cv, n) == [ty |-> cv.ty, elems |-> [i \in 1..n |-> cv.v]]

(* ------------------------------ Table ---------------------------------- *)

\* cloneSans allocates a clone of h[p] without column name.
RECURSIVE cloneLoop(_, _, _, _)
cloneLoop(t, nt, name, i) ==
  IF i > Len(t.colNames) THEN nt
  ELSE LET name2 == t.colNames[i]
           nt1 == IF name2 \in DOMAIN t.cols
                  THEN [nt EXCEPT !.cols = MapSet(nt.cols, name2, t.cols[name2])]
                  ELSE nt
           nt2 == IF name2 \in DOMAIN t.consts
                  THEN [nt1 EXCEPT !.consts = MapSet(nt1.consts, name2, t.consts[name2])]
                  ELSE nt1
           nt3 == [nt2 EXCEPT !.colNames = Append(nt2.colNames, name2)]
       IN IF name # name2 THEN cloneLoop(t, nt3, name, i + 1)
          ELSE cloneLoop(t, nt, name, i + 1)

\* cloneSans that drops the column from t itself and returns t.
cloneSans_InPlace(h, p, name) ==
  LET t == h[p]
      nt == [cols |-> <<>>, consts |-> <<>>, colNames |-> <<>>,
             colNamesNil |-> FALSE, len |-> t.len]
  IN [heap |-> [h EXCEPT ![p] = cloneLoop(t, nt, name, 1)], ret |-> p]

\* cloneSans without the copy of the constants.
cloneSans_DropConsts(h, p, name) ==
  LET t == h[p]
      nt == [cols |-> <<>>, consts |-> <<>>, colNames |-> <<>>,
             colNamesNil |-> FALSE, len |-> t.len]
  IN [heap |-> Append(h, [cloneLoop(t, nt, name, 1) EXCEPT !.consts = <<>>]),
      ret |-> Len(h) + 1]

cloneSans(h, p, name) ==
  LET t == h[p]
      nt == [cols |-> <<>>, consts |-> <<>>, colNames |-> <<>>,
             colNamesNil |-> FALSE, len |-> t.len]
  IN [heap |-> Append(h, cloneLoop(t, nt, name, 1)), ret |-> Len(h) + 1]

\* Add that takes the new column for the first one when the clone has no
\* regular column, counting out the cached expansions of constants.
Add_CountRegular(h, p, name, data) ==
  LET t == h[p] IN
  IF data = NilSlice /\ name \notin DOMAIN t.cols /\ name \notin DOMAIN t.consts
  THEN [heap |-> h, ret |-> p, panic |-> ""]
  ELSE IF data = NilSlice /\ Len(t.colNames) = 1
  THEN [heap |-> Append(h, ZeroTable), ret |-> Len(h) + 1, panic |-> ""]
  ELSE
    LET c == cloneSans(h, p, name)
        nt == c.heap[c.ret]
        dataLen == Len(data.elems)
    IN IF data = NilSlice
       THEN [heap |-> c.heap, ret |-> c.ret, panic |-> ""]
       ELSE IF (DOMAIN nt.cols) \ (DOMAIN nt.consts) = {} \/ nt.len = dataLen
       THEN [heap |-> [c.heap EXCEPT ![c.ret] =
                         [nt EXCEPT !.cols = MapSet(nt.cols, name, data),
                                    !.len = dataLen,
                                    !.colNames = Append(nt.colNames, name)]],
             ret |-> c.ret, panic |-> ""]
       ELSE [heap |-> c.heap, ret |-> NilPtr, panic |-> "cannot add column"]

\* Add(name, data) on the Table h[p].
Add(h, p, name, data) ==
  LET t == h[p] IN
  IF data = NilSlice /\ name \notin DOMAIN t.cols /\ name \notin DOMAIN t.consts
  THEN [heap |-> h, ret |-> p, panic |-> ""]
  ELSE IF data = NilSlice /\ Len(t.colNames) = 1
  THEN [heap |-> Append(h, ZeroTable), ret |-> Len(h) + 1, panic |-> ""]
  ELSE
    LET c == cloneSans(h, p, name)
        nt == c.heap[c.ret]
        dataLen == Len(data.elems)
    IN IF data = NilSlice
       THEN [heap |-> c.heap, ret |-> c.ret, panic |-> ""]
       ELSE IF Cardinality(DOMAIN nt.cols) = 0
       THEN [heap |-> [c.heap EXCEPT ![c.ret] =
                         [nt EXCEPT !.cols = MapSet(nt.cols, name, data),
                                    !.len = dataLen,
                                    !.colNames = Append(nt.colNames, name)]],
             ret |-> c.ret, panic |-> ""]
       ELSE IF nt.len # dataLen
       THEN [heap |-> c.heap, ret |-> NilPtr, panic |-> "cannot add column"]
       ELSE [heap |-> [c.heap EXCEPT ![c.ret] =
                         [nt EXCEPT !.cols = MapSet(nt.cols, name, data),
                                    !.colNames = Append(nt.colNames, name)]],
             ret |-> c.ret, panic |-> ""]

\* AddConst(name, val) on the Table h[p].
AddConst(h, p, name, val) ==
  LET c == cloneSans(h, p, name)
      nt == c.heap[c.ret]
  IN [heap |-> [c.heap EXCEPT ![c.ret] =
                  [nt EXCEPT !.consts = MapSet(nt.consts, name, val),
                             !.colNames = Append(nt.colNames, name)]],
      ret |-> c.ret, panic |-> ""]

\* Len() and Columns() of a Table.
TLen(t) == t.len

Columns(t) == [names |-> t.colNames, isNil |-> t.colNamesNil]

\* Column(name) on the Table h[p]: the slice returned and the heap after the
\* call (the expansion of a constant column is stored in t.cols).
Column(h, p, name) ==
  LET t == h[p] IN
  IF name \in DOMAIN t.cols
  THEN [heap |-> h, val |-> t.cols[name]]
  ELSE IF name \in DOMAIN t.consts
  THEN LET expanded == Repeat(t.consts[name], t.len)
       IN [heap |-> [h EXCEPT ![p] = [t EXCEPT !.cols = MapSet(t.cols, name, expanded)]],
           val |-> expanded]
  ELSE [heap |-> h, val |-> NilSlice]

\* MustColumn(name): Column, or a panic when there is no such column.
MustColumn(h, p, name) ==
  LET c == Column(h, p, name)
  IN [heap |-> c.heap, val |-> c.val,
      panic |-> IF c.val = NilSlice THEN "unknown column" ELSE ""]

\* Const(name).
Const(t, name) ==
  IF name \in DOMAIN t.consts THEN [val |-> t.consts[name], ok |-> TRUE]
  ELSE [val |-> [ty |-> "nil", v |-> 0], ok |-> FALSE]

isEmpty(t) == t.colNamesNil

\* Tables() and Table(gid) of a Table used as a Grouping.
TableTables(t) == IF isEmpty(t) THEN <<>> ELSE <<RootGroupID>>

TableTable(t, p, gid) == IF gid = RootGroupID /\ ~isEmpty(t) THEN p ELSE NilPtr

(* ---------------------------- groupedTable ----------------------------- *)

\* A Grouping value is an interface holding a *Table or a *groupedTable.
TRef(p) == [kind |-> "Table", ptr |-> p]

GRef(k) == [kind |-> "groupedTable", ptr |-> k]

NoRef == [kind |-> "nil", ptr |-> 0]

\* reflect.TypeOf of column col of table t: the element type of a slice in
\* t.cols, else the type of the value in t.consts, else absent.
ColType(t, col) ==
  IF col \in DOMAIN t.cols THEN t.cols[col].ty
  ELSE IF col \in DOMAIN t.consts THEN t.consts[col].ty
  ELSE "nil"

\* The loop over ng.colNames of groupedTable.AddTable: the first panic, or "".
RECURSIVE structLoop(_, _, _, _)
structLoop(tBase, t, colNames, i) ==
  IF i > Len(colNames) THEN ""
  ELSE LET col == colNames[i]
           t0 == ColType(tBase, col)
       IN IF col \notin DOMAIN t.cols /\ col \notin DOMAIN t.consts
          THEN "table missing column"
          ELSE IF t0 # ColType(t, col) THEN "TypeError"
          ELSE structLoop(tBase, t, colNames, i + 1)

\* The check of groupedTable.AddTable that t's column structure matches.
structCheck(tBase, t, colNames) ==
  LET first == structLoop(tBase, t, colNames, 1)
      colSet == {colNames[i] : i \in 1..Len(colNames)}
  IN IF first # "" THEN first
     ELSE IF Cardinality(DOMAIN t.cols) # Len(colNames)
             /\ \E col \in DOMAIN t.cols : col \notin colSet
     THEN "table has extra column"
     ELSE ""

\* The copy of g that keeps every group, gid too.
sansGroup_NoEvict(g, gid) ==
  [tables |-> g.tables, groups |-> g.groups,
   colNames |-> g.colNames, colNamesNil |-> g.colNamesNil]

\* The copy of g without group gid that AddTable starts from.
sansGroup(g, gid) ==
  LET groups == SelectSeq(g.groups, LAMBDA gid2 : gid # gid2)
  IN [tables |-> [x \in {groups[i] : i \in 1..Len(groups)} |-> g.tables[x]],
      groups |-> groups,
      colNames |-> g.colNames, colNamesNil |-> g.colNamesNil]

\* AddTable(gid, t) on the groupedTable gh[k]; tp is a pointer into h, or nil.
groupedAddTable(gh, h, k, gid, tp) ==
  LET g == gh[k]
      ng == sansGroup(g, gid)
      bind(x) == [x EXCEPT !.tables = MapSet(x.tables, gid, tp),
                           !.groups = Append(x.groups, gid)]
  IN IF tp # NilPtr /\ isEmpty(h[tp])
     THEN [gheap |-> gh, ret |-> GRef(k), panic |-> ""]
     ELSE IF tp = NilPtr
     THEN [gheap |-> Append(gh, IF Len(ng.groups) = 0
                                THEN [ng EXCEPT !.colNames = <<>>, !.colNamesNil = TRUE]
                                ELSE ng),
           ret |-> GRef(Len(gh) + 1), panic |-> ""]
     ELSE IF Len(ng.groups) = 0
     THEN [gheap |-> Append(gh, [bind(ng) EXCEPT !.colNames = h[tp].colNames,
                                                 !.colNamesNil = h[tp].colNamesNil]),
           ret |-> GRef(Len(gh) + 1), panic |-> ""]
     ELSE LET err == structCheck(h[ng.tables[ng.groups[1]]], h[tp], ng.colNames)
          IN IF err # ""
             THEN [gheap |-> Append(gh, ng), ret |-> NoRef, panic |-> err]
             ELSE [gheap |-> Append(gh, bind(ng)), ret |-> GRef(Len(gh) + 1), panic |-> ""]

\* The groupedTable Table.AddTable starts from.
ZeroGrouped == [tables |-> <<>>, groups |-> <<>>, colNames |-> <<>>, colNamesNil |-> TRUE]

\* AddTable(gid, t2) on the Table h[p] used as a Grouping.
TableAddTable(gh, h, p, gid, t2) ==
  IF t2 = NilPtr
  THEN IF gid = RootGroupID
       THEN [heap |-> Append(h, ZeroTable), gheap |-> gh, ret |-> TRef(Len(h) + 1), panic |-> ""]
       ELSE [heap |-> h, gheap |-> gh, ret |-> TRef(p), panic |-> ""]
  ELSE IF isEmpty(h[t2])
  THEN [heap |-> h, gheap |-> gh, ret |-> TRef(p), panic |-> ""]
  ELSE IF gid = RootGroupID
  THEN [heap |-> h, gheap |-> gh, ret |-> TRef(t2), panic |-> ""]
  ELSE LET g == Len(gh) + 1
           r1 == groupedAddTable(Append(gh, ZeroGrouped), h, g, RootGroupID, p)
           r2 == groupedAddTable(r1.gheap, h, r1.ret.ptr, gid, t2)
       IN [heap |-> h, gheap |-> r2.gheap, ret |-> r2.ret, panic |-> r2.panic]

\* Columns(), Tables() and Table(gid) of a Grouping value.
GColumns(gh, h, g) ==
  IF g.kind = "Table" THEN Columns(h[g.ptr])
  ELSE [names |-> gh[g.ptr].colNames, isNil |-> gh[g.ptr].colNamesNil]

GTables(gh, h, g) ==
  IF g.kind = "Table" THEN TableTables(h[g.ptr]) ELSE gh[g.ptr].groups

GTable(gh, h, g, gid) ==
  IF g.kind = "Table" THEN TableTable(h[g.ptr], g.ptr, gid)
  ELSE IF gid \in DOMAIN gh[g.ptr].tables THEN gh[g.ptr].tables[gid] ELSE NilPtr

\* The groupedTables a call allocated and dropped are garbage: the heap of
\* groupings keeps the objects it had and the one the call returned.
Escaping(ghOld, r) ==
  IF r.ret.kind = "groupedTable" /\ r.ret.ptr > Len(ghOld)
  THEN [gheap |-> Append(SubSeq(r.gheap, 1, Len(ghOld)), r.gheap[r.ret.ptr]),
        ret |-> GRef(Len(ghOld) + 1)]
  ELSE [gheap |-> SubSeq(r.gheap, 1, Len(ghOld)), ret |-> r.ret]

(* ------------------------------ the calls ------------------------------ *)

\* A panicking call unwinds: the objects it allocated are garbage.
Live(hOld, r) == IF r.panic # "" THEN SubSeq(r.heap, 1, Len(hOld)) ELSE r.heap

NoVal == [ty |-> "nil", v |-> 0]

\* The record of a call: what was called on what (of a slice, whether it was
\* nil), and how it ended.
Call(op, recv, name, data, val, gid, t2, panic, ret, out) ==
  [op |-> op, recv |-> recv, name |-> name, remove |-> (data = NilSlice),
   gid |-> gid, t2 |-> t2, panic |-> panic, ret |-> ret]

\* How a Table object came to be: the call that allocated it, whether it was
\* a removal (data == nil), and whether name was no column of the receiver.
Made(op, name, data, fresh) ==
  [op |-> op, name |-> name, remove |-> (data = NilSlice), fresh |-> fresh]

\* Whether name is a column of t.
HasColumn(t, name) == name \in DOMAIN t.cols \/ name \in DOMAIN t.consts

Ptrs == 1..Len(heap)

\* No SortBy call yet.
NoSort == [done |-> FALSE, g |-> NoRef, cols |-> <<>>, out |-> NoRef, panic |-> "",
           groups |-> <<>>]

NoCall == Call("", NoRef, "", NilSlice, NoVal, "", NilPtr, "", NoRef, NilSlice)

Init ==
  /\ heap = <<ZeroTable>>
  /\ sheap = <<ZeroTable>>
  /\ diverged = FALSE
  /\ gheap = <<>>
  /\ made = <<Made("new", "", NilSlice, TRUE)>>
  /\ last = NoCall
  /\ sorted = NoSort

\* The same call on the shadow heap, which sees every Add and AddConst and
\* none of the Column reads; diverged records that the two runs differ in
\* whether a call panics or in what it returns (the comparison ends there).
Shadow(r, s) ==
  IF diverged THEN UNCHANGED <<sheap, diverged>>
  ELSE IF s.panic # r.panic \/ s.ret # r.ret
  THEN diverged' = TRUE /\ sheap' = <<>>
  ELSE diverged' = FALSE /\ sheap' = Live(sheap, s)

\* No caller recovers: a panic ends the program.
Running == last.panic = ""

DoAdd(p, name, data) ==
  /\ Running
  /\ Len(heap) < MaxTables
  /\ LET r == Add(heap, p, name, data)
     IN /\ heap' = Live(heap, r)
        /\ made' = IF Len(heap') > Len(heap)
                   THEN Append(made, Made("Add", name, data, ~HasColumn(heap[p], name))) ELSE made
        /\ last' = Call("Add", TRef(p), name, data, NoVal, "", NilPtr,
                        r.panic, IF r.panic = "" THEN TRef(r.ret) ELSE NoRef, NilSlice)
        /\ Shadow(r, IF diverged THEN r ELSE Add(sheap, p, name, data))
  /\ UNCHANGED <<gheap, sorted>>

DoAddConst(p, name, val) ==
  /\ Running
  /\ Len(heap) < MaxTables
  /\ LET r == AddConst(heap, p, name, val)
     IN /\ heap' = Live(heap, r)
        /\ made' = Append(made, Made("AddConst", name, NilSlice, ~HasColumn(heap[p], name)))
        /\ last' = Call("AddConst", TRef(p), name, NilSlice, val, "", NilPtr,
                        r.panic, TRef(r.ret), NilSlice)
        /\ Shadow(r, IF diverged THEN r ELSE AddConst(sheap, p, name, val))
  /\ UNCHANGED <<gheap, sorted>>

DoColumn(p, name) ==
  /\ Running
  /\ LET r == Column(heap, p, name)
     IN heap' = r.heap
  /\ UNCHANGED <<sheap, diverged, gheap, made, last, sorted>>

DoMustColumn(p, name) ==
  /\ Running
  /\ LET r == MustColumn(heap, p, name)
     IN /\ heap' = r.heap
        /\ last' = IF r.panic = "" THEN last
                   ELSE Call("MustColumn", TRef(p), name, NilSlice, NoVal, "", NilPtr,
                             r.panic, NoRef, r.val)
  /\ UNCHANGED <<sheap, diverged, gheap, made, sorted>>

DoTableAddTable(p, gid, t2) ==
  /\ Running
  /\ Len(heap) < MaxTables
  /\ Len(gheap) < MaxGroupings
  /\ LET r == TableAddTable(gheap, heap, p, gid, t2)
         e == Escaping(gheap, r)
     IN /\ heap' = r.heap
        /\ gheap' = e.gheap
        /\ made' = IF Len(r.heap) > Len(heap)
                   THEN Append(made, Made("new", "", NilSlice, TRUE)) ELSE made
        /\ sheap' = IF Len(r.heap) > Len(heap) /\ ~diverged
                    THEN Append(sheap, ZeroTable) ELSE sheap
        /\ last' = Call("AddTable", TRef(p), "", NilSlice, NoVal, gid, t2,
                        r.panic, e.ret, NilSlice)
  /\ UNCHANGED <<diverged, sorted>>

DoGroupedAddTable(k, gid, t2) ==
  /\ Running
  /\ Len(gheap) < MaxGroupings
  /\ LET r == groupedAddTable(gheap, heap, k, gid, t2)
         e == Escaping(gheap, r)
     IN /\ gheap' = e.gheap
        /\ last' = Call("AddTable", GRef(k), "", NilSlice, NoVal, gid, t2,
                        r.panic, e.ret, NilSlice)
  /\ UNCHANGED <<heap, sheap, diverged, made, sorted>>

\* The columns and constants handed to Add and AddConst where Groupings are
\* built: both element types, one value, no or one row.
GroupSlices ==
  {[ty |-> ty, elems |-> <<1>>] : ty \in ElemTypes} \cup {[ty |-> "int", elems |-> <<>>]}

GroupVals == {[ty |-> ty, v |-> 1] : ty \in ElemTypes}

Next ==
  \/ \E p \in Ptrs, name \in Names, data \in GroupSlices \cup {NilSlice} : DoAdd(p, name, data)
  \/ \E p \in Ptrs, name \in Names, val \in GroupVals : DoAddConst(p, name, val)
  \/ \E p \in Ptrs, name \in Names : DoColumn(p, name)
  \/ \E p \in Ptrs, name \in Names : DoMustColumn(p, name)
  \/ \E p \in Ptrs, gid \in GroupIDs, t2 \in Ptrs \cup {NilPtr} : DoTableAddTable(p, gid, t2)
  \/ \E k \in 1..Len(gheap), gid \in GroupIDs, t2 \in Ptrs \cup {NilPtr} :
       DoGroupedAddTable(k, gid, t2)

Spec == Init /\ [][Next]_vars

(* ------------------------- the chain of Tables -------------------------- *)

\* A caller that folds Add and AddConst over the empty Table keeps only the
\* Table it has: t = t.Add(...), reading columns of t in between.  The Table
\* it came from is garbage once the call returns, so the heap is <<t>>, and
\* made holds how t and the Table before it were made.
cur == Len(heap)

Keep(h, p, ret) == IF ret = p THEN h ELSE <<h[ret]>>

ChainShadow(r, s) ==
  IF diverged THEN UNCHANGED <<sheap, diverged>>
  ELSE IF s.panic # r.panic \/ s.ret # r.ret
  THEN diverged' = TRUE /\ sheap' = <<>>
  ELSE diverged' = FALSE
       /\ sheap' = IF s.panic # "" THEN sheap ELSE Keep(s.heap, cur, s.ret)

StepAdd(name, data) ==
  /\ Running
  /\ LET r == Add(heap, cur, name, data)
     IN /\ heap' = IF r.panic # "" THEN Live(heap, r) ELSE Keep(r.heap, cur, r.ret)
        /\ made' = IF r.panic # "" \/ r.ret = cur THEN made
                   ELSE <<made[Len(made)], Made("Add", name, data, ~HasColumn(heap[cur], name))>>
        /\ last' = Call("Add", TRef(cur), name, data, NoVal, "", NilPtr,
                        r.panic, IF r.panic = "" THEN TRef(cur) ELSE NoRef, NilSlice)
        /\ ChainShadow(r, IF diverged THEN r ELSE Add(sheap, cur, name, data))
  /\ UNCHANGED <<gheap, sorted>>

StepAddConst(name, val) ==
  /\ Running
  /\ LET r == AddConst(heap, cur, name, val)
     IN /\ heap' = Keep(r.heap, cur, r.ret)
        /\ made' = <<made[Len(made)], Made("AddConst", name, NilSlice, ~HasColumn(heap[cur], name))>>
        /\ last' = Call("AddConst", TRef(cur), name, NilSlice, val, "", NilPtr,
                        r.panic, TRef(cur), NilSlice)
        /\ ChainShadow(r, IF diverged THEN r ELSE AddConst(sheap, cur, name, val))
  /\ UNCHANGED <<gheap, sorted>>

IntSlices == {x \in Slices : x.ty = "int"}

IntVals == {x \in ConstVals : x.ty = "int"}

NextT ==
  \/ \E name \in Names, data \in IntSlices \cup {NilSlice} : StepAdd(name, data)
  \/ \E name \in Names, val \in IntVals : StepAddConst(name, val)
  \/ \E name \in Names : DoColumn(cur, name)
  \/ \E name \in Names : DoMustColumn(cur, name)

SpecT == Init /\ [][NextT]_vars

(* ------------------------------- SortBy -------------------------------- *)

\* Number of rows of the Tables handed to SortBy.
MaxRows == 3

\* Less of the sort.Interface generic.Sorter(seq) gives for a naturally
\* ordered element type, on 1-based indices.
keyLess(seq, i, j) == seq.elems[i] < seq.elems[j]

\* sort.IsSorted(sorter): no element is less than the one before it.
IsSorted(seq) == \A i \in 2..Len(seq.elems) : ~keyLess(seq, i, i - 1)

\* permSort.Less with a non-strict comparison of the last key.
RECURSIVE lessLoop_NonStrict(_, _, _, _, _)
lessLoop_NonStrict(perm, keys, i, j, k) ==
  IF k = Len(keys) THEN ~keyLess(keys[k], perm[j], perm[i])
  ELSE IF keyLess(keys[k], perm[i], perm[j]) THEN TRUE
  ELSE IF keyLess(keys[k], perm[j], perm[i]) THEN FALSE
  ELSE lessLoop_NonStrict(perm, keys, i, j, k + 1)

permSortLess_NonStrict(perm, keys, i, j) == lessLoop_NonStrict(perm, keys, i, j, 1)

\* The loop of permSort.Less from key k on: the keys but the last decide when
\* they differ, the last key decides otherwise.
RECURSIVE lessLoop(_, _, _, _, _)
lessLoop(perm, keys, i, j, k) ==
  IF k = Len(keys) THEN keyLess(keys[k], perm[i], perm[j])
  ELSE IF keyLess(keys[k], perm[i], perm[j]) THEN TRUE
  ELSE IF keyLess(keys[k], perm[j], perm[i]) THEN FALSE
  ELSE lessLoop(perm, keys, i, j, k + 1)

\* permSort.Less(i, j).
permSortLess(perm, keys, i, j) == lessLoop(perm, keys, i, j, 1)

\* permSort.Swap(i, j).
permSortSwap(perm, i, j) == [perm EXCEPT ![i] = perm[j], ![j] = perm[i]]

\* The inner loop of the insertion sort of sort.Stable: element j moves down
\* while it is Less than the one before it.
RECURSIVE insertLoop(_, _, _)
insertLoop(q, keys, j) ==
  IF j > 1 /\ permSortLess(q, keys, j, j - 1)
  THEN insertLoop(permSortSwap(q, j, j - 1), keys, j - 1)
  ELSE q

\* The outer loop of the insertion sort, from element i on.
RECURSIVE insertionSort(_, _, _)
insertionSort(q, keys, i) ==
  IF i > Len(q) THEN q ELSE insertionSort(insertLoop(q, keys, i), keys, i + 1)

\* sort.Stable on fewer than 20 elements: one block, sorted by insertion.
Stable(perm, keys) == insertionSort(perm, keys, 2)

\* generic.MultiIndex that stops one element short and leaves the last one.
MultiIndex_OffByOne(seq, perm) ==
  [ty |-> seq.ty,
   elems |-> [i \in 1..Len(perm) |-> IF i < Len(perm) THEN seq.elems[perm[i]]
                                     ELSE seq.elems[i]]]

\* generic.MultiIndex(seq, perm): the elements of seq at the indices perm.
MultiIndex(seq, perm) ==
  [ty |-> seq.ty, elems |-> [i \in 1..Len(perm) |-> seq.elems[perm[i]]]]

\* The loop of SortBy that creates the sorters of a group: MustColumn on every
\* sort column (which caches the expansion of a constant), keeping the
\* columns that are not sorted yet.
RECURSIVE sortersLoop(_, _, _, _, _)
sortersLoop(h, tp, cols, i, sorters) ==
  IF i > Len(cols) THEN [heap |-> h, sorters |-> sorters, panic |-> ""]
  ELSE LET c == MustColumn(h, tp, cols[i])
       IN IF c.panic # "" THEN [heap |-> c.heap, sorters |-> sorters, panic |-> c.panic]
          ELSE IF IsSorted(c.val) THEN sortersLoop(c.heap, tp, cols, i + 1, sorters)
          ELSE sortersLoop(c.heap, tp, cols, i + 1, Append(sorters, c.val))

\* The loop of SortBy that permutes all columns of h[tp] into a new Table,
\* from column i on.  sh is the heap with the Tables the loop allocates, of
\* which nt is the last; only the final nt outlives the loop, and is the
\* Table to bind.
RECURSIVE permuteLoop(_, _, _, _, _, _)
permuteLoop(h, tp, perm, i, sh, nt) ==
  IF i > Len(h[tp].colNames)
  THEN [heap |-> Append(h, sh[nt]), ret |-> Len(h) + 1, passed |-> FALSE,
        perm |-> perm, panic |-> ""]
  ELSE LET name == h[tp].colNames[i]
           c == Column(h, tp, name)
           a == Add(sh, nt, name, MultiIndex(c.val, perm))
       IN permuteLoop(c.heap, tp, perm, i + 1, a.heap, a.ret)

\* SortBy that binds a copy of a Table whose sort columns are all sorted,
\* and not the Table itself.
permuteGroup_Copy(tp, s) ==
  IF s.panic # ""
  THEN [heap |-> s.heap, ret |-> NilPtr, passed |-> FALSE, perm |-> <<>>, panic |-> s.panic]
  ELSE IF Len(s.sorters) = 0
  THEN [heap |-> Append(s.heap, s.heap[tp]), ret |-> Len(s.heap) + 1, passed |-> TRUE,
        perm |-> <<>>, panic |-> ""]
  ELSE permuteLoop(s.heap, tp, Stable([i \in 1..TLen(s.heap[tp]) |-> i], s.sorters),
                   1, <<ZeroTable>>, 1)

\* What SortBy does with the sorters s of the Table tp: the heap afterwards,
\* the Table to bind (tp itself when no sorter is left), and the permutation
\* (the initial one sorted by sort.Stable).
permuteGroup(tp, s) ==
  IF s.panic # ""
  THEN [heap |-> s.heap, ret |-> NilPtr, passed |-> FALSE, perm |-> <<>>, panic |-> s.panic]
  ELSE IF Len(s.sorters) = 0
  THEN [heap |-> s.heap, ret |-> tp, passed |-> TRUE, perm |-> <<>>, panic |-> ""]
  ELSE permuteLoop(s.heap, tp, Stable([i \in 1..TLen(s.heap[tp]) |-> i], s.sorters),
                   1, <<ZeroTable>>, 1)

\* The body of SortBy's loop up to the Table to bind, for the Table h[tp] of
\* one group.
sortGroup(h, tp, cols) == permuteGroup(tp, sortersLoop(h, tp, cols, 1, <<>>))

\* AddTable on a Grouping value.
AddTable(gh, h, g, gid, tp) ==
  IF g.kind = "Table" THEN TableAddTable(gh, h, g.ptr, gid, tp)
  ELSE [heap |-> h] @@ groupedAddTable(gh, h, g.ptr, gid, tp)

RECURSIVE sortLoop(_, _, _, _, _, _, _)

\* out = out.AddTable(gid, ...) returned a, or panicked; rec records the
\* group: the Table that went in, the Table that came out, the permutation.
bindGroup(gh, g, cols, i, groups, rec, a) ==
  IF a.panic # ""
  THEN [heap |-> a.heap, gheap |-> gh, ret |-> NoRef, panic |-> a.panic, groups |-> groups]
  ELSE sortLoop(a.gheap, a.heap, g, cols, i + 1, a.ret, Append(groups, rec))

\* The body of SortBy's loop for group gid, whose Table tp was sorted as s.
sortBody(gh, g, cols, i, out, groups, gid, tp, s) ==
  IF s.panic # ""
  THEN [heap |-> s.heap, gheap |-> gh, ret |-> NoRef, panic |-> s.panic, groups |-> groups]
  ELSE bindGroup(gh, g, cols, i, groups,
                 [gid |-> gid, tin |-> tp, tout |-> s.ret, passed |-> s.passed,
                  perm |-> s.perm],
                 AddTable(gh, s.heap, out, gid, s.ret))

\* The loop of SortBy over g.Tables(), from group i on: every group is
\* sorted and bound to out in turn.
sortLoop(gh, h, g, cols, i, out, groups) ==
  IF i > Len(GTables(gh, h, g))
  THEN [heap |-> h, gheap |-> gh, ret |-> out, panic |-> "", groups |-> groups]
  ELSE LET gid == GTables(gh, h, g)[i]
       IN sortBody(gh, g, cols, i, out, groups, gid, GTable(gh, h, g, gid),
                   sortGroup(h, GTable(gh, h, g, gid), cols))

\* SortBy(g, cols...): out starts as a new Table.
SortBy(gh, h, g, cols) ==
  sortLoop(gh, Append(h, ZeroTable), g, cols, 1, TRef(Len(h) + 1), <<>>)

\* The Table SortBy is handed: column a of the given rows, and column b, a
\* regular column, a constant, or absent.
BuildTable(a, b) ==
  LET t1 == Add(<<ZeroTable>>, 1, "a", [ty |-> "int", elems |-> a])
      t2 == IF b.kind = "regular"
            THEN Add(t1.heap, t1.ret, "b", [ty |-> "int", elems |-> b.elems])
            ELSE IF b.kind = "const"
            THEN AddConst(t1.heap, t1.ret, "b", [ty |-> "int", v |-> b.v])
            ELSE t1
  IN t2.heap[t2.ret]

Rows(n) == [1..n -> Vals]

\* The second column of a Table of n rows.
SecondColumns(n) ==
  {[kind |-> "regular", elems |-> e, v |-> 0] : e \in Rows(n)}
    \cup {[kind |-> "const", elems |-> <<>>, v |-> v] : v \in Vals}
    \cup {[kind |-> "absent", elems |-> <<>>, v |-> 0]}

Reverse(q) == [i \in 1..Len(q) |-> q[Len(q) + 1 - i]]

\* The Grouping SortBy is handed: a Table, or that Table and a second one
\* (its rows in reverse order) as two groups, with or without a root group.
InitSort ==
  /\ \E n \in 0..MaxRows : \E a \in Rows(n), b \in SecondColumns(n) :
       heap = <<BuildTable(a, b),
                BuildTable(Reverse(a), [b EXCEPT !.elems = Reverse(b.elems)])>>
  /\ \E shape \in {"Table", "rooted", "grouped"} :
       LET r == IF shape = "Table" THEN [gheap |-> <<>>, ret |-> TRef(1)]
                ELSE IF shape = "rooted"
                THEN Escaping(<<>>, TableAddTable(<<>>, heap, 1, "g1", 2))
                ELSE Escaping(<<>>, groupedAddTable(
                       Escaping(<<>>, groupedAddTable(<<ZeroGrouped>>, heap, 1, "g1", 1)).gheap,
                       heap, 1, "g2", 2))
       IN /\ gheap = r.gheap
          /\ sorted = [NoSort EXCEPT !.g = r.ret]
  /\ sheap = <<>>
  /\ diverged = FALSE
  /\ made = <<>>
  /\ last = NoCall

SortCols == {<<>>, <<"a">>, <<"b">>, <<"a", "b">>, <<"b", "a">>}

\* SortBy returned r, or panicked.
SortByReturns(cols, r) ==
  /\ heap' = r.heap
  /\ gheap' = Escaping(gheap, r).gheap
  /\ sorted' = [done |-> TRUE, g |-> sorted.g, cols |-> cols,
                out |-> Escaping(gheap, r).ret, panic |-> r.panic, groups |-> r.groups]

DoSortBy(cols) ==
  /\ ~sorted.done
  /\ SortByReturns(cols, SortBy(gheap, heap, sorted.g, cols))
  /\ UNCHANGED <<sheap, diverged, made, last>>

NextSort == \E cols \in SortCols : DoSortBy(cols)

SpecSort == InitSort /\ [][NextSort]_vars

(* ------------------------- what a caller observes ----------------------- *)

\* What Column(name) returns on t, whatever the cache holds afterwards.
ColumnView(t, name) == Column(<<t>>, 1, name).val

\* Everything the accessors of a Table show: Columns(), Len(), and
\* Column(name) and Const(name) for every name.
Observe(t) ==
  [columns |-> Columns(t), len |-> TLen(t),
   column |-> [n \in Names |-> ColumnView(t, n)],
   const |-> [n \in Names |-> Const(t, n)]]

\* Everything the accessors of a Grouping show: Columns(), Tables(), and the
\* Table (the pointer) bound to every group id.
ObserveGrouping(gh, h, g) ==
  [columns |-> GColumns(gh, h, g), tables |-> GTables(gh, h, g),
   table |-> [gid \in GroupIDs |-> GTable(gh, h, g, gid)]]

ColSet(t) == {t.colNames[i] : i \in 1..Len(t.colNames)}

SeqSet(q) == {q[i] : i \in 1..Len(q)}

\* The regular columns of t: the named columns that are not constants.
Regular(t) == {n \in ColSet(t) : n \notin DOMAIN t.consts}

(* ------------------------------- claims -------------------------------- *)

\* C3 (as claimed): reading constant columns with Column or MustColumn in
\* between changes neither whether a later Add or AddConst panics nor what
\* any later Table shows: the run with the reads and the run without them
\* never diverge, and their Tables show the same.
C3_CacheTransparent ==
  /\ ~diverged
  /\ \A p \in 1..Len(heap) : Observe(heap[p]) = Observe(sheap[p])

\* C6 (as claimed): for the Table t the caller has and every non-nil d, if t
\* without column n has no regular column then t.Add(n, d) succeeds and the
\* result has Len() = len(d); otherwise it succeeds exactly when
\* len(d) = t.Len(), and panics with the length mismatch when it does not.
C6_AddRowCount ==
  \A n \in Names, d \in IntSlices :
    LET t == heap[cur]
        r == Add(heap, cur, n, d)
    IN IF Regular(t) \ {n} = {}
       THEN r.panic = "" /\ TLen(r.heap[r.ret]) = Len(d.elems)
       ELSE /\ (r.panic = "") <=> (Len(d.elems) = TLen(t))
            /\ r.panic \in {"", "cannot add column"}

\* C7: every column of the Table the caller has is as long as the Table:
\* Column(name) returns exactly Len() elements for every name of Columns(),
\* all equal to v for a constant column of value v, and a second Column(name)
\* returns an equal slice.
C7_ColumnsHaveLenRows ==
  \A p \in 1..Len(heap) : \A n \in ColSet(heap[p]) :
    LET t == heap[p]
        c1 == Column(heap, p, n)
        c2 == Column(c1.heap, p, n)
    IN /\ c1.val # NilSlice
       /\ Len(c1.val.elems) = TLen(t)
       /\ n \in DOMAIN t.consts =>
            /\ c1.val.ty = t.consts[n].ty
            /\ \A i \in 1..Len(c1.val.elems) : c1.val.elems[i] = t.consts[n].v
       /\ c2.val = c1.val

\* C7's case: a Table with a row, a regular column and a constant column
\* whose expansion Column has cached.
C7_Witness ==
  /\ last.panic = ""
  /\ \E n \in Names, m \in Names :
       /\ n \in Regular(heap[cur])
       /\ m \in DOMAIN heap[cur].consts /\ m \in DOMAIN heap[cur].cols
       /\ TLen(heap[cur]) = 1

Groupings == {TRef(p) : p \in 1..Len(heap)} \cup {GRef(k) : k \in 1..Len(gheap)}

\* C1 (as claimed): in every Grouping built by AddTable, every two groups
\* have the same set of column names and, for every column name, the same
\* type; a Table that misses a column, has one more, or disagrees on a type
\* is refused.
C1_GroupingSchema ==
  \A k \in 1..Len(gheap) : \A gid1, gid2 \in SeqSet(gheap[k].groups) :
    LET t1 == heap[gheap[k].tables[gid1]]
        t2 == heap[gheap[k].tables[gid2]]
    IN /\ ColSet(t1) = ColSet(t2)
       /\ \A c \in ColSet(t1) : ColType(t1, c) = ColType(t2, c)

\* C4: a call of Add, AddConst or AddTable, whether it returns or panics,
\* leaves its receiver as it was: a Table shows the same column names, rows,
\* columns and constants, and a Grouping the same group ids in the same
\* order, bound to the same Tables, which show the same.
C4_ReceiverAsBefore ==
  LET g == last'.recv IN
  (last'.op \in {"Add", "AddConst", "AddTable"}) =>
    IF g.kind = "Table"
    THEN /\ Observe(heap'[g.ptr]) = Observe(heap[g.ptr])
         /\ ObserveGrouping(gheap', heap', g) = ObserveGrouping(gheap, heap, g)
    ELSE /\ ObserveGrouping(gheap', heap', g) = ObserveGrouping(gheap, heap, g)
         /\ \A gid \in SeqSet(gheap[g.ptr].groups) :
              Observe(heap'[gheap[g.ptr].tables[gid]]) =
                Observe(heap[gheap[g.ptr].tables[gid]])

C4_ReceiverImmutable == [][C4_ReceiverAsBefore]_vars

\* C4's case: AddTable on a groupedTable panicked, after Add and AddConst
\* built Tables with two columns.
C4_Witness ==
  /\ last.op = "AddTable" /\ last.recv.kind = "groupedTable" /\ last.panic # ""
  /\ \E p \in 1..Len(heap) : Len(heap[p].colNames) = 2 /\ DOMAIN heap[p].consts # {}

\* The number of times gid occurs in the sequence q.
Count(q, gid) == Cardinality({i \in 1..Len(q) : q[i] = gid})

\* C8: the last AddTable(gid, t) that returned, on a Table or a groupedTable
\* g: (1) for the empty Table t the result shows what g shows; (2) for nil
\* the result binds no Table to gid, keeps every other group's Table and the
\* order, and has nil Columns() when no group is left; (3) otherwise the
\* result binds t to gid, lists gid once, and keeps every other group's
\* Table.  And Tables() of every Grouping lists no id twice and lists exactly
\* the ids that Table(gid) finds.
C8_AddTableProtocol ==
  /\ (last.op = "AddTable" /\ last.panic = "") =>
       LET g == last.recv
           r == last.ret
           gid == last.gid
           before == ObserveGrouping(gheap, heap, g)
           after == ObserveGrouping(gheap, heap, r)
       IN IF last.t2 # NilPtr /\ isEmpty(heap[last.t2])
          THEN after = before
          ELSE IF last.t2 = NilPtr
          THEN /\ after.table[gid] = NilPtr
               /\ after.tables = SelectSeq(before.tables, LAMBDA x : x # gid)
               /\ \A x \in GroupIDs \ {gid} : after.table[x] = before.table[x]
               /\ after.tables = <<>> => after.columns.isNil
          ELSE /\ after.table[gid] = last.t2
               /\ Count(after.tables, gid) = 1
               /\ \A x \in GroupIDs \ {gid} : after.table[x] = before.table[x]
  /\ \A g \in Groupings :
       LET o == ObserveGrouping(gheap, heap, g)
       IN /\ \A x \in GroupIDs : Count(o.tables, x) <= 1
          /\ SeqSet(o.tables) = {x \in GroupIDs : o.table[x] # NilPtr}

\* C8's case: AddTable bound another Table to a group id that a groupedTable
\* with a second group had already bound.
C8_Witness ==
  /\ last.op = "AddTable" /\ last.panic = "" /\ last.recv.kind = "groupedTable"
  /\ last.t2 # NilPtr /\ ~isEmpty(heap[last.t2])
  /\ Len(gheap[last.recv.ptr].groups) = 2
  /\ last.gid \in SeqSet(gheap[last.recv.ptr].groups)
  /\ gheap[last.recv.ptr].tables[last.gid] # last.t2


\* SortBy returned.
Sorted == sorted.done /\ sorted.panic = ""

\* The Table of group gid of the Grouping handed to SortBy, and of the
\* Grouping it returned.
InTable(gid) == heap[GTable(gheap, heap, sorted.g, gid)]

OutTable(gid) == heap[GTable(gheap, heap, sorted.out, gid)]

SortedGroups == SeqSet(GTables(gheap, heap, sorted.g))

\* The values of row r of t in the columns cols, and in all columns.
KeyTuple(t, cols, r) == [k \in 1..Len(cols) |-> ColumnView(t, cols[k]).elems[r]]

Row(t, r) == [n \in ColSet(t) |-> ColumnView(t, n).elems[r]]

\* x <= y in the lexicographic order, the first component most significant.
TupleLeq(x, y) ==
  \/ x = y
  \/ \E k \in 1..Len(x) : x[k] < y[k] /\ \A m \in 1..(k - 1) : x[m] = y[m]

\* The rows of t whose key is key, in the order they have in t.
RowsWithKey(t, cols, key) ==
  LET idx == SelectSeq([i \in 1..TLen(t) |-> i], LAMBDA i : KeyTuple(t, cols, i) = key)
  IN [j \in 1..Len(idx) |-> Row(t, idx[j])]

\* C2 (as claimed): with one sort column or more, the rows of every group of
\* the Grouping SortBy returns are in non-decreasing lexicographic order of
\* the tuple of the sort columns, the first column most significant.
C2_Lexicographic ==
  (Sorted /\ Len(sorted.cols) >= 1) =>
    \A gid \in SortedGroups :
      \A r \in 1..(TLen(OutTable(gid)) - 1) :
        TupleLeq(KeyTuple(OutTable(gid), sorted.cols, r),
                 KeyTuple(OutTable(gid), sorted.cols, r + 1))

C10_OnePermutation ==
  Sorted =>
    \A gid \in SortedGroups :
      LET tin == InTable(gid)
          tout == OutTable(gid)
      IN /\ tout.colNames = tin.colNames
         /\ TLen(tout) = TLen(tin)
         /\ \E p \in Permutations(1..TLen(tin)) :
              \A c \in ColSet(tin) :
                /\ Len(ColumnView(tout, c).elems) = TLen(tin)
                /\ \A r \in 1..TLen(tin) :
                     ColumnView(tout, c).elems[r] = ColumnView(tin, c).elems[p[r]]

\* A group with a regular and a constant column was reordered.
C10_Witness ==
  /\ Sorted
  /\ \E n \in 1..Len(sorted.groups) :
       LET t == heap[sorted.groups[n].tin] IN
       /\ ~sorted.groups[n].passed
       /\ sorted.groups[n].perm # [i \in 1..TLen(t) |-> i]
       /\ DOMAIN t.consts # {}
       /\ Regular(t) # {}


\* Every group of the Grouping handed to SortBy has all the sort columns.
SortColsExist ==
  \A gid \in SortedGroups : \A k \in 1..Len(sorted.cols) :
    HasColumn(InTable(gid), sorted.cols[k])

\* All the sort columns of the Table t are sorted already.
AllSorted(t, cols) == \A k \in 1..Len(cols) : IsSorted(ColumnView(t, cols[k]))

\* C11: SortBy keeps the structure of the Grouping: when every group has the
\* sort columns it does not panic, the Grouping it returns has the group ids
\* of g in g's order, every group has the column names (in order) and the
\* row count of the group of g with that id, and a group whose sort columns
\* are all sorted already (every group when there is no sort column) is
\* bound to the very Table it is bound to in g.
C11_StructurePreserved ==
  (sorted.done /\ SortColsExist) =>
    /\ sorted.panic = ""
    /\ GTables(gheap, heap, sorted.out) = GTables(gheap, heap, sorted.g)
    /\ \A gid \in SortedGroups :
         /\ GTable(gheap, heap, sorted.out, gid) # NilPtr
         /\ Columns(OutTable(gid)) = Columns(InTable(gid))
         /\ TLen(OutTable(gid)) = TLen(InTable(gid))
         /\ AllSorted(InTable(gid), sorted.cols) =>
              GTable(gheap, heap, sorted.out, gid) = GTable(gheap, heap, sorted.g, gid)

\* SortBy on a sort column returned a Grouping of two groups with a constant
\* column: one group was passed through, the other reordered.
C11_Witness ==
  /\ Sorted
  /\ Len(sorted.cols) >= 1
  /\ Len(sorted.groups) = 2
  /\ \E m, n \in 1..2 :
       /\ sorted.groups[m].passed
       /\ sorted.groups[m].tout = sorted.groups[m].tin
       /\ ~sorted.groups[n].passed
       /\ sorted.groups[n].tout # sorted.groups[n].tin
       /\ DOMAIN heap[sorted.groups[n].tin].consts # {}

====
